---- MODULE Spec2Model ----
(***************************************************************************)
(* Model of the Strava integration layer: the OAuth2 token store and       *)
(* authenticated client (src/strava/auth/strava_auth.py), the dual-window  *)
(* rate limiter (src/strava/auth/rate_limiter.py), the TTL cache           *)
(* (src/strava/cache/lru_cache.py), the error taxonomy                     *)
(* (src/strava/errors.py) and the resource functions of src/server.py.     *)
(*                                                                         *)
(* Time is the wall clock in whole seconds.  The provider (token endpoint  *)
(* and REST API) is the environment: each HTTP call draws its reply from   *)
(* a small set.                                                            *)
(***************************************************************************)
EXTENDS Integers, Sequences, FiniteSets, TLC

VARIABLES
    now,    \* wall clock, seconds (time.time() / datetime.now().timestamp())
    auth,   \* the StravaAuth object's token fields
    rl,     \* the RateLimiter object's two windows
    pc,     \* position of the make_request invocation in progress
    call,   \* loop variable and bookkeeping of that invocation
    calls,  \* number of make_request invocations started so far
    cache,  \* the StravaCache object's _cache dict: key -> value, timestamp
    written,\* history: the set(key, value) calls made so far, in order
    ev      \* what the last step did (operation, result, value returned)

vars == <<now, auth, rl, pc, call, calls, cache, written, ev>>

----------------------------------------------------------------------------
(* Program constants *)

token_expiry_buffer == 60
max_retries == 3
backoff_factor == 1
wait_time == 60
limit_15min == 100
limit_daily == 1000
retention_15min == 900
retention_daily == 86400

(* Bounds of the model *)

MaxTime == 60
MaxCalls == 1
MaxRLTime == 1350
MaxAdds == 3

TickSteps == {60}
ExpiryOffsets == {-30, 120}
EnvExpiries == {0, 120}

None == "None"
Tokens == {"tokA", "tokB"}
RefreshTokens == {"refA"}
AllKeys == {"access_token", "refresh_token", "expires_at"}

----------------------------------------------------------------------------
(* Replies of the provider *)

\* Reply of the token endpoint to the POST of refresh_access_token, at time t.
\* "network": requests raised RequestException; "not_ok": response.ok is
\* false; "ok": a JSON body holding the keys in `keys`.
TokenReplies(t) ==
    {[kind |-> k, keys |-> {}, access_token |-> None, refresh_token |-> None,
      expires_at |-> 0] : k \in {"network", "not_ok"}}
    \cup
    {[kind |-> "ok", keys |-> ks,
      access_token |-> IF "access_token" \in ks THEN a ELSE None,
      refresh_token |-> IF "refresh_token" \in ks THEN r ELSE None,
      expires_at |-> IF "expires_at" \in ks THEN t + o ELSE 0] :
        ks \in SUBSET AllKeys, a \in Tokens, r \in RefreshTokens,
        o \in ExpiryOffsets}

\* Outcome of requests.request for an API call: an HTTP status, or a
\* transport failure (RequestException).
ApiReplies == {"200", "401", "404", "429", "500", "network"}

IsOk(status) == status = "200"

----------------------------------------------------------------------------
(* RateLimiter *)

\* Variant: a timestamp exactly `retention` old is kept.
Purge_Inclusive(s, t, retention) == SelectSeq(s, LAMBDA x : t - x <= retention)

Purge(s, t, retention) == SelectSeq(s, LAMBDA x : t - x < retention)

\* Variant: the two retention periods are exchanged.
Cleaned_Swapped(r, t) ==
    [requests_15min |-> Purge(r.requests_15min, t, retention_daily),
     requests_daily |-> Purge(r.requests_daily, t, retention_15min)]

\* The windows after can_make_request's cleanup at time t.
Cleaned(r, t) ==
    [requests_15min |-> Purge(r.requests_15min, t, retention_15min),
     requests_daily |-> Purge(r.requests_daily, t, retention_daily)]

\* Variant: a window that is exactly at its limit still admits.
can_make_request_AtLimit(r, t) ==
    /\ Len(Cleaned(r, t).requests_15min) <= limit_15min
    /\ Len(Cleaned(r, t).requests_daily) <= limit_daily

\* The value can_make_request returns at time t.
can_make_request(r, t) ==
    /\ Len(Cleaned(r, t).requests_15min) < limit_15min
    /\ Len(Cleaned(r, t).requests_daily) < limit_daily

\* Variant: the timestamp is appended twice to each window.
add_request_Twice(r, t) ==
    [requests_15min |-> Append(Append(r.requests_15min, t), t),
     requests_daily |-> Append(Append(r.requests_daily, t), t)]

\* Variant: both appends go to the short window.
add_request_SameWindow(r, t) ==
    [requests_15min |-> Append(Append(r.requests_15min, t), t),
     requests_daily |-> r.requests_daily]

add_request(r, t) ==
    [requests_15min |-> Append(r.requests_15min, t),
     requests_daily |-> Append(r.requests_daily, t)]

----------------------------------------------------------------------------
(* StravaAuth: token refresh and read path *)

\* Variant: the body is indexed without the membership test, so a missing
\* access_token surfaces as the KeyError of the lookup.
RefreshError_Unchecked(reply) ==
    CASE reply.kind = "network" -> "RuntimeError"
      [] reply.kind = "not_ok" -> "RuntimeError"
      [] "access_token" \notin reply.keys -> "KeyError"
      [] "expires_at" \notin reply.keys -> "KeyError"
      [] OTHER -> "none"

\* refresh_access_token given the provider's reply: the exception raised
\* ("none" if it returns).
RefreshError(reply) ==
    CASE reply.kind = "network" -> "RuntimeError"
      [] reply.kind = "not_ok" -> "RuntimeError"
      [] "access_token" \notin reply.keys -> "ValueError"
      [] "expires_at" \notin reply.keys -> "KeyError"
      [] OTHER -> "none"

\* Variant: refresh_token is read without falling back to the held one.
RefreshState_NoFallback(a, reply) ==
    CASE RefreshError(reply) \in {"RuntimeError", "ValueError"} -> a
      [] RefreshError(reply) = "KeyError" ->
            [a EXCEPT !.access_token = reply.access_token,
                      !.refresh_token = reply.refresh_token]
      [] OTHER ->
            [access_token |-> reply.access_token,
             refresh_token |-> reply.refresh_token,
             token_expires_at |-> reply.expires_at,
             cached_token |-> reply.access_token]

\* The token fields refresh_access_token leaves behind.  The assignments run
\* in source order, so a reply without expires_at fails after access_token
\* and refresh_token have been stored.
RefreshState(a, reply) ==
    CASE RefreshError(reply) \in {"RuntimeError", "ValueError"} -> a
      [] RefreshError(reply) = "KeyError" ->
            [a EXCEPT !.access_token = reply.access_token,
                      !.refresh_token =
                          IF "refresh_token" \in reply.keys
                          THEN reply.refresh_token ELSE @]
      [] OTHER ->
            [access_token |-> reply.access_token,
             refresh_token |->
                 IF "refresh_token" \in reply.keys
                 THEN reply.refresh_token ELSE a.refresh_token,
             token_expires_at |-> reply.expires_at,
             cached_token |-> reply.access_token]

\* The value refresh_access_token returns when it does not raise.
RefreshReturn(a, reply) == RefreshState(a, reply).cached_token

\* Variant: the expiry is compared without the lookahead buffer.
NeedsRefresh_NoBuffer(a, t) ==
    \/ a.cached_token = None
    \/ t >= a.token_expires_at

\* get_access_token refreshes iff this holds at time t.
NeedsRefresh(a, t) ==
    \/ a.cached_token = None
    \/ t >= a.token_expires_at - token_expiry_buffer

----------------------------------------------------------------------------
(* StravaAuth.make_request: retry policy *)

\* Variant: the last attempt is retried too.
Retries_Inclusive(attempt) == attempt <= max_retries

\* The except handler of make_request sleeps and retries iff this holds.
Retries(attempt) == attempt < max_retries

\* Variant: the exponent is the attempt number itself.
Backoff_FromAttempt(attempt) == backoff_factor * (2 ^ attempt)

\* The backoff slept after failed attempt `attempt`.
Backoff(attempt) == backoff_factor * (2 ^ (attempt - 1))

\* Variant: the pause is the backoff base instead of the cool-down.
CoolDown_BackoffBase == backoff_factor

\* The pause make_request takes when the limiter refuses an attempt.
CoolDown == wait_time

\* make_request catches RuntimeError only; anything else leaves the call.
Caught(err) == err = "RuntimeError"

\* What make_authenticated_request does with the first response ...
AfterFirst(status) ==
    IF IsOk(status) THEN "return"
    ELSE IF status = "401" THEN "reauth"
    ELSE "raise"

\* Variant: the response to the re-dispatch is never handed back.
AfterRetry_NoReturn(status) == "raise"

\* Variant: a 401 to the re-dispatch starts another refresh.
AfterRetry_Loop(status) ==
    IF IsOk(status) THEN "return"
    ELSE IF status = "401" THEN "reauth"
    ELSE "raise"

\* ... and with the response to the re-dispatch that follows the refresh.
AfterRetry(status) ==
    IF IsOk(status) THEN "return" ELSE "raise"

----------------------------------------------------------------------------
Idle == pc = "idle"

NoCall ==
    [attempt |-> 0, dispatches |-> 0, forced |-> 0, expiry |-> 0,
     cooldowns |-> 0, adds |-> 0, backoffs |-> <<>>, bearer |-> None,
     outcome |-> "none"]

\* The windows a run starts from: empty, as constructed, or holding the
\* limit_15min timestamps that as many requests registered at time 0 leave.
Preloads ==
    {<<>>, [i \in 1..limit_15min |-> 0]}

\* The token-endpoint reply a refresh worked on, as the step's event keeps it.
Shape(reply) == reply
NoShape ==
    [kind |-> "none", keys |-> {}, access_token |-> None,
     refresh_token |-> None, expires_at |-> 0]

Event(op, res, tok, shape) ==
    [op |-> op, res |-> res, tok |-> tok, shape |-> shape]

Init ==
    /\ now = 0
    /\ \E a \in {None, "tokEnv"}, e \in EnvExpiries :
          auth = [access_token |-> a, refresh_token |-> "refEnv",
                  token_expires_at |-> e, cached_token |-> None]
    /\ \E w \in Preloads : rl = [requests_15min |-> w, requests_daily |-> w]
    /\ pc = "idle"
    /\ call = NoCall
    /\ calls = 0
    /\ cache = <<>>
    /\ written = <<>>
    /\ ev = Event("init", "none", None, NoShape)

\* The clock advances between operations.
Tick ==
    /\ Idle
    /\ \E d \in TickSteps :
          /\ now + d <= MaxTime
          /\ now' = now + d
    /\ ev' = Event("tick", "none", None, NoShape)
    /\ call' = NoCall
    /\ UNCHANGED <<cache, written, auth, rl, pc, calls>>

\* refresh_access_token called on its own.
RefreshAccessToken ==
    /\ Idle
    /\ \E reply \in TokenReplies(now) :
          /\ auth' = RefreshState(auth, reply)
          /\ ev' = IF RefreshError(reply) = "none"
                   THEN Event("refresh", "ok", RefreshReturn(auth, reply),
                              Shape(reply))
                   ELSE Event("refresh", RefreshError(reply), None,
                              Shape(reply))
    /\ call' = NoCall
    /\ UNCHANGED <<cache, written, now, rl, pc, calls>>

\* get_access_token called on its own (server start-up, resource functions).
GetAccessToken ==
    /\ Idle
    /\ IF NeedsRefresh(auth, now)
       THEN \E reply \in TokenReplies(now) :
               /\ auth' = RefreshState(auth, reply)
               /\ ev' = IF RefreshError(reply) = "none"
                        THEN Event("get_access_token", "refreshed",
                                   RefreshReturn(auth, reply), Shape(reply))
                        ELSE Event("get_access_token", RefreshError(reply),
                                   None, Shape(reply))
       ELSE /\ auth' = auth
            /\ ev' = Event("get_access_token", "cached", auth.cached_token,
                           NoShape)
    /\ call' = NoCall
    /\ UNCHANGED <<cache, written, now, rl, pc, calls>>

\* An exception err reaches the try block of make_request, whose
\* bookkeeping so far is c: back off and retry, or leave with the error.
Fail(err, c) ==
    IF Caught(err) /\ Retries(c.attempt)
    THEN /\ now' = now + Backoff(c.attempt)
         /\ pc' = "check"
         /\ call' = [c EXCEPT !.attempt = @ + 1,
                              !.backoffs = Append(@, Backoff(c.attempt))]
    ELSE /\ now' = now
         /\ pc' = "idle"
         /\ call' = [c EXCEPT !.outcome = err]

\* make_request is entered.
StartMakeRequest ==
    /\ Idle
    /\ calls < MaxCalls
    /\ calls' = calls + 1
    /\ pc' = "check"
    /\ call' = [NoCall EXCEPT !.attempt = 1, !.outcome = "running"]
    /\ ev' = Event("make_request", "start", None, NoShape)
    /\ UNCHANGED <<cache, written, now, auth, rl>>

\* Loop head of make_request: the rate-limiting check of an attempt, with
\* the cool-down sleep when the limiter refuses.  A loop that has run out of
\* attempts falls off the end of the function, which returns None.
RateCheck ==
    /\ pc = "check"
    /\ IF call.attempt > max_retries
       THEN /\ pc' = "idle"
            /\ call' = [call EXCEPT !.outcome = "None"]
            /\ ev' = Event("make_request", "None", None, NoShape)
            /\ UNCHANGED <<now, rl>>
       ELSE /\ rl' = Cleaned(rl, now)
            /\ pc' = "auth"
            /\ IF can_make_request(rl, now)
               THEN /\ now' = now
                    /\ call' = call
                    /\ ev' = Event("can_make_request", "true", None, NoShape)
               ELSE /\ now' = now + CoolDown
                    /\ call' = [call EXCEPT !.cooldowns = @ + 1]
                    /\ ev' = Event("can_make_request", "false", None, NoShape)
    /\ UNCHANGED <<cache, written, auth, calls>>

\* make_authenticated_request obtains the bearer token (get_access_token).
AcquireToken ==
    /\ pc = "auth"
    /\ IF NeedsRefresh(auth, now)
       THEN \E reply \in TokenReplies(now) :
               LET err == RefreshError(reply)
                   c == [call EXCEPT !.expiry = @ + 1]
               IN  /\ auth' = RefreshState(auth, reply)
                   /\ IF err = "none"
                      THEN /\ now' = now
                           /\ pc' = "send"
                           /\ call' = [c EXCEPT !.bearer =
                                           RefreshReturn(auth, reply)]
                           /\ ev' = Event("get_access_token", "refreshed",
                                          RefreshReturn(auth, reply),
                                          Shape(reply))
                      ELSE /\ Fail(err, c)
                           /\ ev' = Event("get_access_token", err, None,
                                          Shape(reply))
       ELSE /\ auth' = auth
            /\ now' = now
            /\ pc' = "send"
            /\ call' = [call EXCEPT !.bearer = auth.cached_token]
            /\ ev' = Event("get_access_token", "cached", auth.cached_token,
                           NoShape)
    /\ UNCHANGED <<cache, written, rl, calls>>

\* make_authenticated_request dispatches the request; make_request registers
\* it with the limiter when a response comes back to it.
Dispatch ==
    /\ pc = "send"
    /\ \E status \in ApiReplies :
          LET c == [call EXCEPT !.dispatches = @ + 1]
          IN  /\ ev' = Event("dispatch", status, call.bearer, NoShape)
              /\ IF AfterFirst(status) = "return"
                 THEN /\ rl' = add_request(rl, now)
                      /\ now' = now
                      /\ pc' = "idle"
                      /\ call' = [c EXCEPT !.adds = @ + 1,
                                           !.outcome = "response"]
                 ELSE IF AfterFirst(status) = "reauth"
                 THEN /\ rl' = rl
                      /\ now' = now
                      /\ pc' = "reauth"
                      /\ call' = c
                 ELSE /\ rl' = rl
                      /\ Fail("RuntimeError", c)
    /\ UNCHANGED <<cache, written, auth, calls>>

\* The Authorization header of the re-dispatch: written again from the token
\* state after the forced refresh (a holds the state the refresh left, old the
\* bearer of the rejected dispatch).  The variant leaves the header as it was.
RetryHeader_Stale(a, old) == old

RetryHeader(a, old) == a.cached_token

\* The forced refresh that follows a 401.
ForcedRefresh ==
    /\ pc = "reauth"
    /\ \E reply \in TokenReplies(now) :
          LET err == RefreshError(reply)
              c == [call EXCEPT !.forced = @ + 1]
          IN  /\ auth' = RefreshState(auth, reply)
              /\ IF err = "none"
                 THEN /\ now' = now
                      /\ pc' = "resend"
                      /\ call' = [c EXCEPT !.bearer =
                                      RetryHeader(RefreshState(auth, reply),
                                                  c.bearer)]
                      /\ ev' = Event("forced_refresh", "ok",
                                     RefreshReturn(auth, reply), Shape(reply))
                 ELSE /\ Fail(err, c)
                      /\ ev' = Event("forced_refresh", err, None,
                                     Shape(reply))
    /\ UNCHANGED <<cache, written, rl, calls>>

\* The single re-dispatch after the forced refresh: its response is returned
\* or raised, whatever its status (AfterRetry never asks for another refresh).
Redispatch ==
    /\ pc = "resend"
    /\ \E status \in ApiReplies :
          LET c == [call EXCEPT !.dispatches = @ + 1]
          IN  /\ ev' = Event("redispatch", status, call.bearer, NoShape)
              /\ IF AfterRetry(status) = "return"
                 THEN /\ rl' = add_request(rl, now)
                      /\ now' = now
                      /\ pc' = "idle"
                      /\ call' = [c EXCEPT !.adds = @ + 1,
                                           !.outcome = "response"]
                 ELSE IF AfterRetry(status) = "reauth"
                 THEN /\ rl' = rl
                      /\ now' = now
                      /\ pc' = "reauth"
                      /\ call' = c
                 ELSE /\ rl' = rl
                      /\ Fail("RuntimeError", c)
    /\ UNCHANGED <<cache, written, auth, calls>>

MakeRequestStep ==
    \/ RateCheck
    \/ AcquireToken
    \/ Dispatch
    \/ ForcedRefresh
    \/ Redispatch

Next ==
    \/ Tick
    \/ RefreshAccessToken
    \/ GetAccessToken
    \/ StartMakeRequest
    \/ RateCheck
    \/ AcquireToken
    \/ Dispatch
    \/ ForcedRefresh
    \/ Redispatch

Spec == Init /\ [][Next]_vars

\* Every HTTP call returns or fails, and sleeps end: a make_request
\* invocation in progress keeps taking its steps.
FairSpec == Spec /\ WF_vars(MakeRequestStep)
----------------------------------------------------------------------------
(* The RateLimiter on its own: can_make_request and add_request called in   *)
(* any order while the clock advances.                                      *)

RLTickSteps == {450}

Stamps(n, t) == [i \in 1..n |-> t]

\* Windows a run starts from: empty, as constructed; two short of the
\* 15-minute limit, with timestamps that leave the short window at time 450;
\* two short of the daily limit, with timestamps that left the short window
\* long ago and leave the daily one at time 900.
RLPreloads ==
    { [requests_15min |-> <<>>, requests_daily |-> <<>>],
      [requests_15min |-> Stamps(limit_15min - 2, 450 - retention_15min),
       requests_daily |-> Stamps(limit_15min - 2, 450 - retention_15min)],
      [requests_15min |-> <<>>,
       requests_daily |-> Stamps(limit_daily - 2, 900 - retention_daily)] }

RLInit ==
    /\ now = 0
    /\ auth = [access_token |-> None, refresh_token |-> "refEnv",
               token_expires_at |-> 0, cached_token |-> None]
    /\ rl \in RLPreloads
    /\ pc = "idle"
    /\ call = NoCall
    /\ calls = 0
    /\ cache = <<>>
    /\ written = <<>>
    /\ ev = Event("init", "none", None, NoShape)

RLTick ==
    /\ \E d \in RLTickSteps :
          /\ now + d <= MaxRLTime
          /\ now' = now + d
    /\ ev' = Event("tick", "none", None, NoShape)
    /\ UNCHANGED <<cache, written, auth, rl, pc, call, calls>>

\* can_make_request(): the cleanup is stored, the verdict returned.
CanMakeRequest ==
    /\ rl' = Cleaned(rl, now)
    /\ ev' = Event("can_make_request",
                   IF can_make_request(rl, now) THEN "true" ELSE "false",
                   None, NoShape)
    /\ UNCHANGED <<cache, written, now, auth, pc, call, calls>>

\* Timestamps registered since the run began.
Registered == Len(SelectSeq(rl.requests_daily, LAMBDA x : x >= 0))

\* add_request(): unconditional.
AddRequest ==
    /\ Registered < MaxAdds
    /\ rl' = add_request(rl, now)
    /\ ev' = Event("add_request", "none", None, NoShape)
    /\ UNCHANGED <<cache, written, now, auth, pc, call, calls>>

RLNext ==
    \/ RLTick
    \/ CanMakeRequest
    \/ AddRequest

SpecRL == RLInit /\ [][RLNext]_vars

----------------------------------------------------------------------------
(* StravaCache (src/strava/cache/lru_cache.py), the cache server.py builds  *)
(* with ttl=300; _cache is a function from the keys present to entries.     *)

ttl == 300

MaxCacheTime == 450
MaxSets == 2

CacheTickSteps == {150}
CacheKeys == {"activity_1", "athlete_clubs"}
CacheValues == {"v1", "v2"}

Entry(value, t) == [value |-> value, timestamp |-> t]

\* Variant: an entry exactly ttl old is still served.
Live_Inclusive(c, key, t) ==
    /\ key \in DOMAIN c
    /\ t - c[key].timestamp <= ttl

\* get serves the entry of key iff this holds at time t.
Live(c, key, t) ==
    /\ key \in DOMAIN c
    /\ t - c[key].timestamp < ttl

\* The value get(key) returns at time t.
cache_get(c, key, t) == IF Live(c, key, t) THEN c[key].value ELSE None

\* Variant: a hit restarts the entry's lifetime.
after_get_Touch(c, key, t) ==
    IF key \in DOMAIN c
    THEN [x \in DOMAIN c |-> IF x = key THEN Entry(c[x].value, t) ELSE c[x]]
    ELSE c

\* The dict get(key) leaves behind at time t: an entry found expired is
\* deleted.
after_get(c, key, t) ==
    IF key \in DOMAIN c /\ ~Live(c, key, t)
    THEN [x \in DOMAIN c \ {key} |-> c[x]]
    ELSE c

\* Variant: a key that is already present keeps its entry.
cache_set_KeepFirst(c, key, value, t) ==
    [x \in DOMAIN c \cup {key} |->
        IF x \in DOMAIN c THEN c[x] ELSE Entry(value, t)]

\* The dict set(key, value) leaves behind at time t.
cache_set(c, key, value, t) ==
    [x \in DOMAIN c \cup {key} |->
        IF x = key THEN Entry(value, t) ELSE c[x]]

\* The class defines __init__, get and set; any other attribute looked up on
\* an instance raises AttributeError.
Methods == {"__init__", "get", "set"}

CacheEvent(op, key, res, val) ==
    [op |-> op, key |-> key, res |-> res, val |-> val]

\* The token store and the limiter take no part in the cache's operations.
clientVars == <<auth, rl, pc, call, calls>>

CacheInit ==
    /\ now = 0
    /\ auth = [access_token |-> None, refresh_token |-> "refEnv",
               token_expires_at |-> 0, cached_token |-> None]
    /\ rl = [requests_15min |-> <<>>, requests_daily |-> <<>>]
    /\ pc = "idle"
    /\ call = NoCall
    /\ calls = 0
    /\ cache = <<>>
    /\ written = <<>>
    /\ ev = CacheEvent("init", None, "none", None)

CacheTick ==
    /\ \E d \in CacheTickSteps :
          /\ now + d <= MaxCacheTime
          /\ now' = now + d
    /\ ev' = CacheEvent("tick", None, "none", None)
    /\ UNCHANGED <<cache, written, clientVars>>

\* strava_cache.get(key)
CacheGet ==
    /\ \E key \in CacheKeys :
          /\ cache' = after_get(cache, key, now)
          /\ ev' = CacheEvent("get", key,
                              IF Live(cache, key, now) THEN "hit" ELSE "miss",
                              cache_get(cache, key, now))
    /\ UNCHANGED <<now, written, clientVars>>

\* strava_cache.set(key, value)
CacheSet ==
    /\ Len(written) < MaxSets
    /\ \E key \in CacheKeys, value \in CacheValues :
          /\ cache' = cache_set(cache, key, value, now)
          /\ written' = Append(written, [key |-> key, value |-> value,
                                         timestamp |-> now])
          /\ ev' = CacheEvent("set", key, "none", value)
    /\ UNCHANGED <<now, clientVars>>

\* strava_cache.clear()
CacheClear ==
    /\ IF "clear" \in Methods
       THEN /\ cache' = <<>>
            /\ ev' = CacheEvent("clear", None, "none", None)
       ELSE /\ cache' = cache
            /\ ev' = CacheEvent("clear", None, "AttributeError", None)
    /\ UNCHANGED <<now, written, clientVars>>

CacheNext ==
    \/ CacheTick
    \/ CacheGet
    \/ CacheSet
    \/ CacheClear

SpecCache == CacheInit /\ [][CacheNext]_vars

----------------------------------------------------------------------------
(* Error taxonomy (src/strava/errors.py)                                    *)

\* Exceptions and responses as the handlers see them: the class, the
\* status_code attribute (None where the class has none or it is unset), the
\* response attached to a RequestException (its status, or None) and the
\* text that str() gives.
Exc(class, status_code, response, message) ==
    [class |-> class, status_code |-> status_code, response |-> response,
     message |-> message]

NoExc == Exc("none", None, None, "")

StravaApiError(message, status_code) ==
    Exc("StravaApiError", status_code, None, message)

Response(status) == Exc("Response", status, None, "text")

StatusCodes == ApiReplies \ {"network"}

\* Classes derived from requests.exceptions.RequestException.
RequestExceptions == {"RequestException", "JSONDecodeError"}

IsRequestException(e) == e.class \in RequestExceptions

\* Variant: 429 gets the provider-error message.
ResponseMessage_NoRateLimit(status) ==
    IF status = "401" THEN "Authentication error"
    ELSE "Strava API error"

\* The message handle_strava_error chooses for a Response.
ResponseMessage(status) ==
    IF status = "401" THEN "Authentication error"
    ELSE IF status = "429" THEN "Rate limit exceeded"
    ELSE "Strava API error"

\* handle_strava_error(error): the exception it raises.
RECURSIVE handle_strava_error(_)
handle_strava_error(error) ==
    IF error.class = "Response"
    THEN StravaApiError(ResponseMessage(error.status_code), error.status_code)
    ELSE IF IsRequestException(error)
    THEN IF error.response # None
         THEN handle_strava_error(Response(error.response))
         ELSE StravaApiError("Network error", None)
    ELSE StravaApiError("Unexpected error", None)

----------------------------------------------------------------------------
(* Resource functions (src/server.py)                                       *)

per_page_cap == 200
month_seconds == 2592000

MaxServerTime == 300
MaxFetches == 2

ServerTickSteps == {300}
ServerTokenExpiries == {21600}

ResourceFunctions ==
    {"get_recent_activities", "get_recent_activities_with_pagination",
     "get_activity", "get_athlete_zones", "get_athlete_stats", "get_gear"}

\* Optional integer arguments: {} is None, {n} is the integer n.
Befores == {{}, {0}, {100}}
Afters == {{}, {0}, {50}}
Pages == {1, 3}
PerPages == {30, 199, 200, 201, 250}
PageArgs ==
    [before : Befores, after : Afters, page : Pages, per_page : PerPages]

\* The defaults of get_recent_activities_with_pagination.
NoArgs == [before |-> {}, after |-> {}, page |-> 1, per_page |-> 30]

\* The arguments the resource functions are read with.
Args(func) ==
    IF func = "get_recent_activities_with_pagination"
    THEN {NoArgs, [before |-> {100}, after |-> {50}, page |-> 3,
                   per_page |-> 250]}
    ELSE {NoArgs}

\* Python truthiness of an optional integer and of a cached value.
TruthyInt(x) == x # {} /\ x # {0}
Value(x) == CHOOSE v \in x : TRUE
Min(a, b) == IF a < b THEN a ELSE b

\* What response.json() gives: a non-empty object, a non-empty or empty
\* array, or a parse failure.
Bodies == {"object", "array", "empty_array", "malformed"}
Truthy(v) == v \in {"object", "array"}
IsDict(body) == body = "object"

\* The class json() raises on a malformed body: requests' JSONDecodeError
\* (a RequestException) or the json module's (a ValueError).
ParseErrors == {"JSONDecodeError", "ValueError"}

\* Number of heart-rate zones in the body of /athlete/zones.
ZoneCounts == {0, 5, 6}

\* What json() does on the response a function got: the exception class
\* raised, or the body and, for /athlete/zones, its number of zones.
NoBody == [body |-> None, perr |-> "none", zones |-> 0]
ParsedBodies(func) ==
    {[body |-> "malformed", perr |-> p, zones |-> 0] : p \in ParseErrors}
    \cup {[body |-> b, perr |-> "none", zones |-> 0] :
             b \in Bodies \ {"malformed", "object"}}
    \cup {[body |-> "object", perr |-> "none", zones |-> n] :
             n \in IF func = "get_athlete_zones" THEN ZoneCounts ELSE {0}}
ZoneIndices == (0 - 3)..12

\* Variant: the names are looked up from 1.
get_zone_name_OneBased(index) ==
    CASE index = 1 -> "Recovery"
      [] index = 2 -> "Endurance"
      [] index = 3 -> "Tempo"
      [] index = 4 -> "Threshold"
      [] index = 5 -> "Anaerobic"
      [] OTHER -> "Unknown"

\* _get_zone_name(index)
get_zone_name(index) ==
    CASE index = 0 -> "Recovery"
      [] index = 1 -> "Endurance"
      [] index = 2 -> "Tempo"
      [] index = 3 -> "Threshold"
      [] index = 4 -> "Anaerobic"
      [] OTHER -> "Unknown"

\* The heart-rate zone names get_athlete_zones returns for n zones.
ZoneNames(n) == [i \in 1..n |-> get_zone_name(i - 1)]

\* Variant: per_page is passed through as given.
PerPage_Uncapped(per_page) == per_page

PerPage(per_page) == Min(per_page, per_page_cap)

\* The params dict a function hands to make_request (<<>> when it passes
\* none).
Params(func, a, t) ==
    CASE func = "get_recent_activities" ->
            [before |-> t, after |-> t - month_seconds, page |-> 1,
             per_page |-> per_page_cap]
      [] func = "get_recent_activities_with_pagination" ->
            [k \in {"page", "per_page"}
                   \cup (IF TruthyInt(a.before) THEN {"before"} ELSE {})
                   \cup (IF TruthyInt(a.after) THEN {"after"} ELSE {}) |->
                CASE k = "page" -> a.page
                  [] k = "per_page" -> PerPage(a.per_page)
                  [] k = "before" -> Value(a.before)
                  [] k = "after" -> Value(a.after)]
      [] OTHER -> <<>>

\* The functions that call strava_cache.get / strava_cache.set.
UsesCache(func) == func \in {"get_activity", "get_athlete_stats", "get_gear"}

CacheKey(func) ==
    CASE func = "get_activity" -> "activity_" \o "1"
      [] func = "get_gear" -> "gear_" \o "b1"
      [] func = "get_athlete_stats" -> "athlete_clubs"
      [] OTHER -> None

\* One make_authenticated_request with a valid cached token, given the
\* status of the first response, the token endpoint's reply to the forced
\* refresh and the status of the re-dispatched request: a response, or the
\* exception class raised together with the status of the last response.
Attempt(first, reply, second) ==
    CASE AfterFirst(first) = "return" ->
            [kind |-> "response", class |-> None, status |-> first]
      [] AfterFirst(first) = "raise" ->
            [kind |-> "raise", class |-> "RuntimeError", status |-> first]
      [] OTHER ->
            IF RefreshError(reply) # "none"
            THEN [kind |-> "raise", class |-> RefreshError(reply),
                  status |-> first]
            ELSE IF AfterRetry(second) = "return"
            THEN [kind |-> "response", class |-> None, status |-> second]
            ELSE [kind |-> "raise", class |-> "RuntimeError",
                  status |-> second]

AttemptResults ==
    {Attempt(first, reply, second) :
        first \in ApiReplies, reply \in TokenReplies(0), second \in ApiReplies}

\* make_request from attempt number `attempt` on, at time t with windows r:
\* the ways it can end, each with the response or exception it leaves with,
\* the time it does so and the windows it leaves behind.  An attempt that
\* returns or raises an exception that is not retried ends the call; one
\* that is retried is followed by the backoff and the next attempt.
RECURSIVE make_request(_, _, _)
make_request(attempt, t, r) ==
    LET t1 == IF can_make_request(r, t) THEN t ELSE t + CoolDown
        retried == {res \in AttemptResults :
                       /\ res.kind = "raise"
                       /\ Caught(res.class)
                       /\ Retries(attempt)}
    IN  {[kind |-> res.kind, class |-> res.class, status |-> res.status,
          t |-> t1,
          rl |-> IF res.kind = "response"
                 THEN add_request(Cleaned(r, t), t1)
                 ELSE Cleaned(r, t)] : res \in AttemptResults \ retried}
        \cup
        (IF retried = {} THEN {}
         ELSE make_request(attempt + 1, t1 + Backoff(attempt), Cleaned(r, t)))

\* What the except clauses of a function's own try block raise for an
\* exception e raised inside it.
Body(func, e) ==
    CASE func = "get_recent_activities" ->
            IF e.class = "StravaApiError" THEN e
            ELSE IF IsRequestException(e) THEN handle_strava_error(e)
            ELSE Exc("RuntimeError", None, None, e.message)
      [] func = "get_activity" ->
            IF IsRequestException(e)
            THEN StravaApiError(e.message, None)
            ELSE Exc("RuntimeError", None, None, e.message)
      [] OTHER -> Exc("RuntimeError", None, None, e.message)

\* Variant: the catch-all clause is missing.
resource_error_handler_NoCatchAll(e) ==
    IF e.class = "StravaApiError" THEN e
    ELSE IF IsRequestException(e) THEN handle_strava_error(e)
    ELSE e

\* resource_error_handler: what the wrapper raises for an exception e that
\* leaves the wrapped function.
resource_error_handler(e) ==
    IF e.class = "StravaApiError" THEN e
    ELSE IF IsRequestException(e) THEN handle_strava_error(e)
    ELSE StravaApiError(e.message, None)

\* What a function does with the parsed body after json(): the exception
\* class raised by its use of the body ("none" if it goes through).
UseError(func, body) ==
    IF func \in {"get_activity", "get_athlete_zones", "get_gear"}
       /\ ~IsDict(body)
    THEN "AttributeError"
    ELSE "none"

\* get_activity stores the body before it uses it; get_athlete_stats and
\* get_gear use it first.
StoresBeforeUse(func) == func = "get_activity"

ServerEvent(op, args, res, val, exc, status, params, steps) ==
    [op |-> op, args |-> args, res |-> res, val |-> val, exc |-> exc,
     status |-> status, params |-> params, steps |-> steps]

\* The function raised: what reaches the caller through the wrapper.
Raised(func, a, e, status, params, steps) ==
    ServerEvent(func, a, "raised", None,
                resource_error_handler(Body(func, e)), status, params,
                Append(steps, "raise"))

\* The state after module import: the start-up get_access_token has obtained
\* a token.  The token endpoint keeps issuing that token, so a forced
\* refresh inside make_request leaves the token fields as they are.
ServerInit ==
    /\ now = 0
    /\ \E e \in ServerTokenExpiries :
          auth = [access_token |-> "tokA", refresh_token |-> "refEnv",
                  token_expires_at |-> e, cached_token |-> "tokA"]
    /\ rl = [requests_15min |-> <<>>, requests_daily |-> <<>>]
    /\ pc = "idle"
    /\ call = NoCall
    /\ calls = 0
    /\ cache = <<>>
    /\ written = <<>>
    /\ ev = ServerEvent("init", NoArgs, "none", None, NoExc, None, <<>>, <<>>)

ServerTick ==
    /\ \E d \in ServerTickSteps :
          /\ now + d <= MaxServerTime
          /\ now' = now + d
    /\ ev' = ServerEvent("tick", NoArgs, "none", None, NoExc, None, <<>>,
                         <<>>)
    /\ UNCHANGED <<cache, written, clientVars>>

\* A resource function is called through its module-level name, that is
\* through resource_error_handler.
ReadResource ==
    LET outs == make_request(1, now, rl) IN
    \E func \in ResourceFunctions :
    \E a \in Args(func) :
      LET key == CacheKey(func)
          hit == UsesCache(func) /\ Truthy(cache_get(cache, key, now))
          c1 == IF UsesCache(func) THEN after_get(cache, key, now) ELSE cache
          s1 == IF UsesCache(func) THEN <<"cache">> ELSE <<>>
          params == Params(func, a, now)
      IN
      IF hit
      THEN /\ cache' = c1
           /\ ev' = ServerEvent(func, a, "hit", cache_get(cache, key, now),
                                NoExc, None, <<>>, Append(s1, "return"))
           /\ UNCHANGED <<now, written, clientVars>>
      ELSE
        /\ calls < MaxFetches
        /\ UsesCache(func) => Len(written) < MaxSets
        /\ ~NeedsRefresh(auth, now)  \* get_access_token: from the cache
        /\ calls' = calls + 1
        /\ UNCHANGED <<auth, pc, call>>
        /\ \E out \in outs :
           \E parsed \in IF out.kind = "response"
                          THEN ParsedBodies(func) ELSE {NoBody} :
             LET body == parsed.body
                 s2 == s1 \o <<"token", "request">>
                 s3 == Append(s2, "parse")
                 stored == cache_set(c1, key, body, out.t)
                 entry == [key |-> key, value |-> body, timestamp |-> out.t]
             IN
             /\ now' = out.t
             /\ rl' = out.rl
             /\ IF out.kind = "raise"
                THEN /\ ev' = Raised(func, a,
                                     Exc(out.class, None, None, out.class),
                                     out.status, params, s2)
                     /\ cache' = c1
                     /\ written' = written
                ELSE IF func = "get_recent_activities" /\ ~IsOk(out.status)
                THEN /\ ev' = Raised(func, a,
                                     handle_strava_error(Response(out.status)),
                                     out.status, params, s2)
                     /\ cache' = c1
                     /\ written' = written
                ELSE IF body = "malformed"
                THEN /\ ev' = Raised(func, a,
                                     Exc(parsed.perr, None, None, parsed.perr),
                                     None, params, s3)
                     /\ cache' = c1
                     /\ written' = written
                ELSE IF UseError(func, body) # "none"
                THEN /\ ev' = Raised(func, a,
                                     Exc(UseError(func, body), None, None,
                                         UseError(func, body)),
                                     None, params,
                                     IF StoresBeforeUse(func)
                                     THEN Append(s3, "populate") ELSE s3)
                     /\ cache' = IF StoresBeforeUse(func) THEN stored ELSE c1
                     /\ written' = IF StoresBeforeUse(func)
                                   THEN Append(written, entry) ELSE written
                ELSE /\ ev' = ServerEvent(func, a, "fetched",
                                 IF func = "get_athlete_zones"
                                 THEN ZoneNames(parsed.zones) ELSE body,
                                 NoExc, None, params,
                                 IF UsesCache(func)
                                 THEN s3 \o <<"populate", "return">>
                                 ELSE Append(s3, "return"))
                     /\ cache' = IF UsesCache(func) THEN stored ELSE c1
                     /\ written' = IF UsesCache(func)
                                   THEN Append(written, entry) ELSE written

ServerNext ==
    \/ ServerTick
    \/ ReadResource

SpecServer == ServerInit /\ [][ServerNext]_vars

----------------------------------------------------------------------------
(* The pure functions of the server and of the error module, applied to     *)
(* inputs drawn from bounded sets.                                          *)

\* Inputs of handle_strava_error: responses, request exceptions with and
\* without a response, other exceptions.
ErrorInputs ==
    {Response(s) : s \in StatusCodes}
    \cup {Exc(c, None, r, "text") :
             c \in RequestExceptions, r \in StatusCodes \cup {None}}
    \cup {Exc(c, None, None, "text") :
             c \in {"ValueError", "RuntimeError", "StravaApiError"}}

PureEvent(op, input, res, val) ==
    [op |-> op, input |-> input, res |-> res, val |-> val]

PureInit ==
    /\ now = 0
    /\ auth = [access_token |-> None, refresh_token |-> "refEnv",
               token_expires_at |-> 0, cached_token |-> None]
    /\ rl = [requests_15min |-> <<>>, requests_daily |-> <<>>]
    /\ pc = "idle"
    /\ call = NoCall
    /\ calls = 0
    /\ cache = <<>>
    /\ written = <<>>
    /\ ev = PureEvent("init", None, "none", None)

\* handle_strava_error(error)
HandleStravaError ==
    /\ \E error \in ErrorInputs :
          ev' = PureEvent("handle_strava_error", error, "raised",
                          handle_strava_error(error))
    /\ UNCHANGED <<now, cache, written, clientVars>>

\* _get_zone_name(index)
GetZoneName ==
    /\ \E index \in ZoneIndices :
          ev' = PureEvent("_get_zone_name", index, "returned",
                          get_zone_name(index))
    /\ UNCHANGED <<now, cache, written, clientVars>>

\* The params dict get_recent_activities_with_pagination builds and hands
\* to make_request, which passes it on to requests.request unchanged.
PaginationParams ==
    /\ \E a \in PageArgs :
          ev' = PureEvent("get_recent_activities_with_pagination", a,
                          "params",
                          Params("get_recent_activities_with_pagination", a,
                                 now))
    /\ UNCHANGED <<now, cache, written, clientVars>>

PureNext ==
    \/ HandleStravaError
    \/ GetZoneName
    \/ PaginationParams

SpecPure == PureInit /\ [][PureNext]_vars

----------------------------------------------------------------------------
(* Analytics: pure functions over activity records (server.py)              *)

MaxActs == 2

\* A field of an activity record: the key is absent, present as null, or
\* present with a number.
Absent == [st |-> "absent", n |-> 0]
Null == [st |-> "null", n |-> 0]
Num(n) == [st |-> "num", n |-> n]

\* An activity record; type is a sport name, "absent" or "null".
Activity(type, distance, moving_time, average_heartrate) ==
    [type |-> type, distance |-> distance, moving_time |-> moving_time,
     average_heartrate |-> average_heartrate]

\* The two activities of the documented example.
ExampleRun == Activity("Run", Num(5000), Num(1800), Num(140))
ExampleSwim == Activity("Swim", Num(2000), Num(3600), Num(110))
Example == <<ExampleRun, ExampleSwim>>

ActivityTypes == {"Run", "Ride", "Swim", "absent", "null"}
Distances == {Absent, Null, Num(0), Num(5004), Num(5005), Num(25000)}
MovingTimes == {Absent, Null, Num(0), Num(1818), Num(18000)}
HeartRates == {Absent, Null, Num(0), Num(119), Num(120), Num(149), Num(150)}

\* The records that differ from b in at most one field.
OneOff(b) ==
    {[b EXCEPT !.type = t] : t \in ActivityTypes}
    \cup {[b EXCEPT !.distance = d] : d \in Distances}
    \cup {[b EXCEPT !.moving_time = m] : m \in MovingTimes}
    \cup {[b EXCEPT !.average_heartrate = h] : h \in HeartRates}

Activities == OneOff(ExampleRun) \cup OneOff(ExampleSwim)

ActivityLists == UNION {[1..n -> Activities] : n \in 0..MaxActs}

\* activity.get(key, 0) and activity.get("type")
Get(field) == IF field.st = "absent" THEN Num(0) ELSE field
TypeKey(a) == IF a.type \in {"absent", "null"} THEN None ELSE a.type

\* A value an analytics function returns or the exception it raises.
Returned(val) == [exc |-> "none", val |-> val]
Raises(class) == [exc |-> class, val |-> None]

\* A pace as the exact quotient num / den.
Ratio(num, den) == [num |-> num, den |-> den]
ZeroPace == Ratio(0, 1)

\* The try block of _calculate_pace: min/km for a run, km/h for a ride.
PaceBody(a) ==
    LET d == Get(a.distance)
        m == Get(a.moving_time)
    IN  IF TypeKey(a) = "Run"
        THEN IF m.st = "null" \/ d.st = "null" THEN Raises("TypeError")
             ELSE IF d.n = 0 THEN Raises("ZeroDivisionError")
             ELSE Returned(Ratio(m.n * 1000, 60 * d.n))
        ELSE IF TypeKey(a) = "Ride"
        THEN IF d.st = "null" \/ m.st = "null" THEN Raises("TypeError")
             ELSE IF m.n = 0 THEN Raises("ZeroDivisionError")
             ELSE Returned(Ratio(d.n * 3600, 1000 * m.n))
        ELSE Returned(ZeroPace)

\* _calculate_pace
calculate_pace(a) ==
    IF PaceBody(a).exc \in {"TypeError", "ZeroDivisionError"}
    THEN Returned(ZeroPace)
    ELSE PaceBody(a)

\* Variant: a heart rate of exactly 120 still counts as easy.
Zone_Inclusive(hr) ==
    IF hr <= 120 THEN "easy" ELSE IF hr < 150 THEN "medium" ELSE "hard"

\* The comparison chain both functions apply to a heart rate.
Zone(hr) ==
    IF hr < 120 THEN "easy" ELSE IF hr < 150 THEN "medium" ELSE "hard"

\* _calculate_effort: "unknown" stands for the text returned without a
\* heart rate, the zone names for the three effort texts.
calculate_effort(a) ==
    IF a.average_heartrate.st = "absent" THEN Returned("unknown")
    ELSE IF a.average_heartrate.st = "null" THEN Raises("TypeError")
    ELSE Returned(Zone(a.average_heartrate.n))

RECURSIVE Sum(_)
Sum(s) == IF s = <<>> THEN 0 ELSE Head(s) + Sum(Tail(s))

\* round(n / unit, 2) in hundredths, for an integer n and unit = 100 * k:
\* the nearest hundredth; on an exact tie the binary quotient lies on either
\* side, so either neighbour.
Round(n, k) ==
    LET q == n \div k
        r == n % k
    IN  IF 2 * r < k THEN {q}
        ELSE IF 2 * r > k THEN {q + 1}
        ELSE {q, q + 1}

\* The activities of acts whose heart rate is truthy and in zone z.
InZone(acts, z) ==
    {i \in 1..Len(acts) :
        LET hr == Get(acts[i].average_heartrate)
        IN  hr.st = "num" /\ hr.n # 0 /\ Zone(hr.n) = z}

NoSummary ==
    [activities_count |-> 0, total_distance |-> 0, total_time |-> 0,
     activities_by_type |-> <<>>,
     heart_rate_zones |-> [easy |-> 0, medium |-> 0, hard |-> 0]]

\* analyze_training_load: the results it can give on acts.  Totals are in
\* hundredths of a kilometre and of an hour.
analyze_training_load(acts) ==
    IF acts = <<>>
    THEN {[exc |-> "none", keys |-> {"error", "activities_count"},
           val |-> NoSummary]}
    ELSE IF \E i \in 1..Len(acts) :
               \/ Get(acts[i].distance).st = "null"
               \/ Get(acts[i].moving_time).st = "null"
    THEN {[exc |-> "TypeError", keys |-> {}, val |-> NoSummary]}
    ELSE LET dist == Sum([i \in 1..Len(acts) |-> Get(acts[i].distance).n])
             time == Sum([i \in 1..Len(acts) |-> Get(acts[i].moving_time).n])
             types == {TypeKey(acts[i]) : i \in 1..Len(acts)}
         IN  {[exc |-> "none",
               keys |-> {"activities_count", "total_distance", "total_time",
                         "activities_by_type", "heart_rate_zones"},
               val |-> [activities_count |-> Len(acts),
                        total_distance |-> td,
                        total_time |-> tt,
                        activities_by_type |->
                            [k \in types |->
                                Cardinality({i \in 1..Len(acts) :
                                                TypeKey(acts[i]) = k})],
                        heart_rate_zones |->
                            [z \in {"easy", "medium", "hard"} |->
                                Cardinality(InZone(acts, z))]]] :
                 td \in Round(dist, 10), tt \in Round(time, 36)}

\* The recommendations get_activity_recommendations collects from the
\* analysis a of acts, one tag per text.
Recommendations(acts, a) ==
    LET zones == a.heart_rate_zones
        total == zones.easy + zones.medium + zones.hard
        runs == SelectSeq(acts, LAMBDA x : TypeKey(x) = "Run")
        run_volume == Sum([i \in 1..Len(runs) |-> Get(runs[i].distance).n])
    IN  (IF total > 0 /\ zones.easy * 100 < 70 * total
         THEN <<"more_easy">> ELSE <<>>)
        \o (IF total > 0 /\ zones.medium * 100 > 40 * total
            THEN <<"grey_zone">> ELSE <<>>)
        \o (IF "Run" \in DOMAIN a.activities_by_type /\ run_volume < 20000
            THEN <<"run_volume">> ELSE <<>>)
        \o (IF a.total_time < 500 THEN <<"total_volume">> ELSE <<>>)
        \o (IF total > 5 THEN <<"recovery">> ELSE <<>>)

NoResult == [keys |-> {}, status |-> None, details |-> None,
             recommendations |-> <<>>]

\* get_activity_recommendations, given what get_recent_activities did
\* (fetch is "raised" or "returned", acts the list returned) and the
\* analysis out of acts.
get_activity_recommendations(fetch, acts, out) ==
    IF fetch = "raised"
    THEN [keys |-> {"status", "error", "recommendations"},
          status |-> "error", details |-> "StravaApiError",
          recommendations |-> <<"check_connection">>]
    ELSE IF acts = <<>>
    THEN [keys |-> {"status", "error", "recommendations"},
          status |-> "warning", details |-> None,
          recommendations |-> <<"start_recording">>]
    ELSE IF out.exc # "none"
    THEN [keys |-> {"status", "error", "details"},
          status |-> "error", details |-> out.exc,
          recommendations |-> <<>>]
    ELSE LET zones == out.val.heart_rate_zones
             recs == Recommendations(acts, out.val)
         IN  IF zones.easy + zones.medium + zones.hard = 0
             THEN \* easy_percent is read without having been assigned
                  [keys |-> {"status", "error", "details"},
                   status |-> "error", details |-> "UnboundLocalError",
                   recommendations |-> <<>>]
             ELSE [keys |-> {"analysis", "recommendations", "summary"},
                   status |-> None, details |-> None,
                   recommendations |->
                       IF recs = <<>> THEN <<"balanced">> ELSE recs]

AnalyticsEvent(op, fetch, acts, out, result) ==
    [op |-> op, fetch |-> fetch, acts |-> acts, out |-> out,
     result |-> result]

NoOut == [exc |-> "none", keys |-> {}, val |-> NoSummary]

\* The input of a run: what get_recent_activities did, and the list of
\* activities the functions are applied to.
AnalyticsInputs ==
    {AnalyticsEvent("input", "raised", <<>>, NoOut, NoResult)}
    \cup {AnalyticsEvent("input", "returned", acts, NoOut, NoResult) :
             acts \in ActivityLists}

AnalyticsInit ==
    /\ now = 0
    /\ auth = [access_token |-> None, refresh_token |-> "refEnv",
               token_expires_at |-> 0, cached_token |-> None]
    /\ rl = [requests_15min |-> <<>>, requests_daily |-> <<>>]
    /\ pc = "idle"
    /\ call = NoCall
    /\ calls = 0
    /\ cache = <<>>
    /\ written = <<>>
    /\ ev \in AnalyticsInputs

\* _calculate_pace applied to the activity of a one-element input.
CalculatePace ==
    /\ ev.op = "input"
    /\ Len(ev.acts) = 1
    /\ ev' = AnalyticsEvent("calculate_pace", ev.fetch, ev.acts,
                            calculate_pace(ev.acts[1]), NoResult)
    /\ UNCHANGED <<now, cache, written, clientVars>>

\* _calculate_effort applied to the activity of a one-element input.
CalculateEffort ==
    /\ ev.op = "input"
    /\ Len(ev.acts) = 1
    /\ ev' = AnalyticsEvent("calculate_effort", ev.fetch, ev.acts,
                            calculate_effort(ev.acts[1]), NoResult)
    /\ UNCHANGED <<now, cache, written, clientVars>>

AnalyzeTrainingLoad ==
    /\ ev.op = "input"
    /\ ev.fetch = "returned"
    /\ \E out \in analyze_training_load(ev.acts) :
          ev' = AnalyticsEvent("analyze_training_load", ev.fetch, ev.acts,
                               out, NoResult)
    /\ UNCHANGED <<now, cache, written, clientVars>>

GetActivityRecommendations ==
    /\ ev.op = "input"
    /\ \E out \in IF ev.fetch = "raised" THEN {NoOut}
                  ELSE analyze_training_load(ev.acts) :
          ev' = AnalyticsEvent("get_activity_recommendations", ev.fetch,
                               ev.acts, out,
                               get_activity_recommendations(ev.fetch,
                                                            ev.acts, out))
    /\ UNCHANGED <<now, cache, written, clientVars>>

AnalyticsNext ==
    \/ CalculatePace
    \/ CalculateEffort
    \/ AnalyzeTrainingLoad
    \/ GetActivityRecommendations

SpecAnalytics == AnalyticsInit /\ [][AnalyticsNext]_vars

----------------------------------------------------------------------------
(* The RateLimiter called from two threads with no lock: each statement of  *)
(* can_make_request and add_request is a step, and the assignment of a      *)
(* filtered list is two steps, the list being built and the attribute being *)
(* rebound.                                                                 *)

MaxRounds == 2

Threads == {"t1", "t2"}

\* A thread's locals: the list built and not yet bound, and the number of
\* calls it has started.
NoLocals == [built |-> <<>>, rounds |-> 0]

RaceEvent(op, thread, res) == [op |-> op, thread |-> thread, res |-> res]

\* Windows a race starts from: empty, as constructed, or holding one
\* timestamp that has left the short window and not the daily one.
RacePreloads ==
    { [requests_15min |-> <<>>, requests_daily |-> <<>>],
      [requests_15min |-> Stamps(1, 0 - retention_15min),
       requests_daily |-> Stamps(1, 0 - retention_15min)] }

RLRaceInit ==
    /\ now = 0
    /\ auth = [access_token |-> None, refresh_token |-> "refEnv",
               token_expires_at |-> 0, cached_token |-> None]
    /\ rl \in RacePreloads
    /\ pc = [t \in Threads |-> "idle"]
    /\ call = [t \in Threads |-> NoLocals]
    /\ calls = 0
    /\ cache = <<>>
    /\ written = <<>>
    /\ ev = RaceEvent("init", "none", "none")

\* can_make_request is entered: the filtered short list is built.
Build15(t) ==
    /\ pc[t] = "idle"
    /\ call[t].rounds < MaxRounds
    /\ call' = [call EXCEPT ![t].rounds = @ + 1,
                            ![t].built = Cleaned(rl, now).requests_15min]
    /\ pc' = [pc EXCEPT ![t] = "bind_15min"]
    /\ ev' = RaceEvent("build_15min", t, "none")
    /\ UNCHANGED <<now, auth, rl, calls, cache, written>>

\* self.requests_15min is rebound to the list built.
Bind15(t) ==
    /\ pc[t] = "bind_15min"
    /\ rl' = [rl EXCEPT !.requests_15min = call[t].built]
    /\ pc' = [pc EXCEPT ![t] = "build_daily"]
    /\ ev' = RaceEvent("bind_15min", t,
                       IF call[t].built = Cleaned(rl, now).requests_15min
                       THEN "fresh" ELSE "stale")
    /\ UNCHANGED <<now, auth, call, calls, cache, written>>

BuildDaily(t) ==
    /\ pc[t] = "build_daily"
    /\ call' = [call EXCEPT ![t].built = Cleaned(rl, now).requests_daily]
    /\ pc' = [pc EXCEPT ![t] = "bind_daily"]
    /\ ev' = RaceEvent("build_daily", t, "none")
    /\ UNCHANGED <<now, auth, rl, calls, cache, written>>

\* self.requests_daily is rebound, and the verdict is returned.
BindDaily(t) ==
    /\ pc[t] = "bind_daily"
    /\ rl' = [rl EXCEPT !.requests_daily = call[t].built]
    /\ pc' = [pc EXCEPT ![t] = "idle"]
    /\ call' = [call EXCEPT ![t].built = <<>>]
    /\ ev' = RaceEvent("bind_daily", t,
                       IF call[t].built = Cleaned(rl, now).requests_daily
                       THEN "fresh" ELSE "stale")
    /\ UNCHANGED <<now, auth, calls, cache, written>>

\* add_request is entered: the timestamp goes to the short window.  The
\* registration is logged in written.
Append15(t) ==
    /\ pc[t] = "idle"
    /\ call[t].rounds < MaxRounds
    /\ call' = [call EXCEPT ![t].rounds = @ + 1]
    /\ rl' = [rl EXCEPT !.requests_15min =
                            add_request(rl, now).requests_15min]
    /\ written' = Append(written, now)
    /\ pc' = [pc EXCEPT ![t] = "append_daily"]
    /\ ev' = RaceEvent("append_15min", t, "none")
    /\ UNCHANGED <<now, auth, calls, cache>>

\* The timestamp goes to the daily window, and add_request returns.
AppendDaily(t) ==
    /\ pc[t] = "append_daily"
    /\ rl' = [rl EXCEPT !.requests_daily =
                            add_request(rl, now).requests_daily]
    /\ calls' = calls + 1
    /\ pc' = [pc EXCEPT ![t] = "idle"]
    /\ ev' = RaceEvent("append_daily", t, "none")
    /\ UNCHANGED <<now, auth, call, cache, written>>

RLRaceNext ==
    \E t \in Threads :
        \/ Build15(t)
        \/ Bind15(t)
        \/ BuildDaily(t)
        \/ BindDaily(t)
        \/ Append15(t)
        \/ AppendDaily(t)

SpecRLRace == RLRaceInit /\ [][RLRaceNext]_vars

----------------------------------------------------------------------------
(* refresh_access_token called from two threads with no lock: the POST and  *)
(* each assignment to the token state is a step.                            *)

MaxRefreshes == 1

\* A thread's locals: the provider's reply it holds, the number of calls it
\* has started, and how its last call ended.
NoRefresh == [reply |-> CHOOSE r \in TokenReplies(0) : r.kind = "network",
              rounds |-> 0, outcome |-> "none"]

RefreshRaceInit ==
    /\ now = 0
    /\ \E a \in {None, "tokEnv"}, e \in EnvExpiries :
          auth = [access_token |-> a, refresh_token |-> "refEnv",
                  token_expires_at |-> e, cached_token |-> None]
    /\ rl = [requests_15min |-> <<>>, requests_daily |-> <<>>]
    /\ pc = [t \in Threads |-> "idle"]
    /\ call = [t \in Threads |-> NoRefresh]
    /\ calls = 0
    /\ cache = <<>>
    /\ written = {}
    /\ ev = RaceEvent("init", "none", "none")

\* The POST to the provider and the checks of its reply (response.ok, the
\* access_token membership test).  written collects the replies received.
Post(t) ==
    /\ pc[t] = "idle"
    /\ call[t].rounds < MaxRefreshes
    /\ \E reply \in TokenReplies(now) :
          LET err == RefreshError(reply) IN
          /\ written' = written \cup {reply}
          /\ IF err \in {"RuntimeError", "ValueError"}
             THEN /\ pc' = pc
                  /\ call' = [call EXCEPT ![t].rounds = @ + 1,
                                          ![t].reply = reply,
                                          ![t].outcome = err]
                  /\ ev' = RaceEvent("post", t, err)
             ELSE /\ pc' = [pc EXCEPT ![t] = "access_token"]
                  /\ call' = [call EXCEPT ![t].rounds = @ + 1,
                                          ![t].reply = reply,
                                          ![t].outcome = "running"]
                  /\ ev' = RaceEvent("post", t, "ok")
    /\ UNCHANGED <<now, auth, rl, calls, cache>>

\* self.access_token = data["access_token"]
SetAccessToken(t) ==
    /\ pc[t] = "access_token"
    /\ auth' = [auth EXCEPT !.access_token = call[t].reply.access_token]
    /\ pc' = [pc EXCEPT ![t] = "refresh_token"]
    /\ ev' = RaceEvent("access_token", t, "none")
    /\ UNCHANGED <<now, rl, call, calls, cache, written>>

\* self.refresh_token = data.get("refresh_token", self.refresh_token)
SetRefreshToken(t) ==
    /\ pc[t] = "refresh_token"
    /\ auth' = [auth EXCEPT !.refresh_token =
                    IF "refresh_token" \in call[t].reply.keys
                    THEN call[t].reply.refresh_token ELSE @]
    /\ pc' = [pc EXCEPT ![t] = "token_expires_at"]
    /\ ev' = RaceEvent("refresh_token", t, "none")
    /\ UNCHANGED <<now, rl, call, calls, cache, written>>

\* self.token_expires_at = data["expires_at"]
SetTokenExpiresAt(t) ==
    /\ pc[t] = "token_expires_at"
    /\ IF "expires_at" \in call[t].reply.keys
       THEN /\ auth' = [auth EXCEPT !.token_expires_at =
                                        call[t].reply.expires_at]
            /\ pc' = [pc EXCEPT ![t] = "cached_token"]
            /\ call' = call
            /\ ev' = RaceEvent("token_expires_at", t, "none")
       ELSE /\ auth' = auth
            /\ pc' = [pc EXCEPT ![t] = "idle"]
            /\ call' = [call EXCEPT ![t].outcome = "KeyError"]
            /\ ev' = RaceEvent("token_expires_at", t, "KeyError")
    /\ UNCHANGED <<now, rl, calls, cache, written>>

\* self._cached_token = self.access_token, and the return.
SetCachedToken(t) ==
    /\ pc[t] = "cached_token"
    /\ auth' = [auth EXCEPT !.cached_token = auth.access_token]
    /\ pc' = [pc EXCEPT ![t] = "idle"]
    /\ call' = [call EXCEPT ![t].outcome = "returned"]
    /\ calls' = calls + 1
    /\ ev' = RaceEvent("cached_token", t, auth.access_token)
    /\ UNCHANGED <<now, rl, cache, written>>

RefreshRaceNext ==
    \E t \in Threads :
        \/ Post(t)
        \/ SetAccessToken(t)
        \/ SetRefreshToken(t)
        \/ SetTokenExpiresAt(t)
        \/ SetCachedToken(t)

SpecRefreshRace == RefreshRaceInit /\ [][RefreshRaceNext]_vars

----------------------------------------------------------------------------
(* Properties *)

IsGet(e) == e.op = "get_access_token"
IsRefresh(e) == e.op \in {"refresh", "forced_refresh"} \/ (IsGet(e) /\ e.res # "cached")
Errors == {"RuntimeError", "ValueError", "KeyError"}
InCall == pc # "idle"

\* C1: get_access_token returns the cached token, without a refresh and
\* without touching the token state, when a cached token is held and
\* now < token_expires_at - 60; in every other case it contacts the provider
\* and, when that refresh succeeds, returns the newly issued token.
C1_CachedOrRefreshed ==
    [][IsGet(ev') =>
         IF auth.cached_token # None /\ now < auth.token_expires_at - 60
         THEN /\ ev'.res = "cached"
              /\ ev'.tok = auth.cached_token
              /\ ~IsRefresh(ev')
              /\ auth' = auth
         ELSE /\ IsRefresh(ev')
              /\ ev'.shape.kind # "none"
              /\ ev'.res = "refreshed" =>
                    /\ ev'.tok \in Tokens
                    /\ ev'.tok = auth'.access_token
                    /\ ev'.tok = auth'.cached_token]_vars

\* C1 witness: a get_access_token served from the cache after time passed.
C1_Witness ==
    /\ IsGet(ev)
    /\ ev.res = "cached"
    /\ ev.tok \in Tokens

\* C2: every token get_access_token returns is unexpired at the moment of
\* return: now < token_expires_at.
C2_NeverReturnsExpired ==
    (IsGet(ev) /\ ev.tok # None) => now < auth.token_expires_at

\* C3: a refresh_access_token call that fails leaves access_token,
\* refresh_token, token_expires_at and the cached token unchanged.
C3_FailedRefreshKeepsState ==
    [][(IsRefresh(ev') /\ ev'.res \in Errors) => auth' = auth]_vars

\* C4: a refresh whose reply lacks access_token raises the validation error
\* (ValueError), a class no network or provider failure of the refresh
\* raises, and leaves the token state unchanged.
C4_MissingAccessTokenIsValidationError ==
    [][IsRefresh(ev') =>
         /\ (ev'.shape.kind = "ok" /\ "access_token" \notin ev'.shape.keys)
               => (ev'.res = "ValueError" /\ auth' = auth)
         /\ ev'.shape.kind \in {"network", "not_ok"}
               => (ev'.res \in Errors /\ ev'.res # "ValueError")]_vars

\* C4 witness: a refresh just failed on a reply without access_token while a
\* token was cached.
C4_Witness ==
    /\ IsRefresh(ev)
    /\ ev.shape.kind = "ok"
    /\ "access_token" \notin ev.shape.keys
    /\ ev.res = "ValueError"
    /\ auth.cached_token \in Tokens

\* C5: a call that took its token from the cache, got 401 on its first
\* dispatch and a success on the re-dispatch returns that response after
\* exactly one refresh and two dispatches (the original and one retry).
C5_Single401Recovers ==
    [][(ev'.op = "redispatch" /\ ev'.res = "200"
          /\ call.attempt = 1 /\ call.expiry = 0) =>
         /\ pc' = "idle"
         /\ call'.outcome = "response"
         /\ call'.forced = 1
         /\ call'.expiry = 0
         /\ call'.dispatches = 2
         /\ call'.attempt = 1
         /\ call'.backoffs = <<>>]_vars

\* C5 witness: such a call has just returned.
C5_Witness ==
    /\ ev.op = "redispatch"
    /\ ev.res = "200"
    /\ call.attempt = 1
    /\ call.expiry = 0
    /\ call.forced = 1
    /\ call.outcome = "response"

\* C6: when the re-dispatch after the forced refresh is answered 401 too,
\* the call ends there with an error: one refresh, two dispatches, no
\* further attempt.
C6_Second401Surfaces ==
    [][(ev'.op = "redispatch" /\ ev'.res = "401" /\ call.attempt = 1) =>
         /\ pc' = "idle"
         /\ call'.outcome \in Errors
         /\ call'.forced = 1
         /\ call'.dispatches = 2]_vars

\* C7: every make_request invocation ends (returns or raises), and it never
\* dispatches more than 2 requests in each of its 3 attempts.
C7_Terminates ==
    /\ [](call.dispatches <= 6)
    /\ (InCall ~> ~InCall)

\* C7 witness: a call that was answered 401 throughout has ended.
C7_Witness ==
    /\ ~InCall
    /\ call.dispatches = 6
    /\ call.forced = 3
    /\ call.outcome = "RuntimeError"

\* C8: make_request makes at most 3 attempts, and it ends either with a
\* response or by raising: a RuntimeError is raised only by the third
\* attempt, and the function never returns without a response.
C8_ThreeAttemptsThenRaise ==
    /\ call.attempt <= 3
    /\ call.outcome # "None"
    /\ (~InCall /\ call.attempt > 0) =>
          call.outcome \in {"response"} \cup Errors
    /\ call.outcome = "response" => call.adds = 1
    /\ call.outcome = "RuntimeError" => call.attempt = 3

\* C8 witness: three attempts failed on transient errors and the call raised.
C8_Witness ==
    /\ ~InCall
    /\ call.attempt = 3
    /\ call.outcome = "RuntimeError"
    /\ call.forced = 0
    /\ ev.res \in {"500", "network"}

\* C9: the sleep after failed attempt k is 2^(k-1) seconds (1 s, then 2 s),
\* and the failure of the third attempt is raised without a sleep.
C9_ExponentialBackoff ==
    [][InCall =>
         /\ call'.attempt # call.attempt =>
               /\ call'.attempt = call.attempt + 1
               /\ call.attempt = 1 => now' - now = 1
               /\ call.attempt = 2 => now' - now = 2
               /\ call.attempt \in {1, 2}
               /\ call'.backoffs = Append(call.backoffs, now' - now)
         /\ (call'.attempt = call.attempt /\ call'.outcome \in Errors) =>
               (now' = now /\ call'.backoffs = call.backoffs)]_vars

\* C9 witness: a call raised after sleeping 1 s and 2 s.
C9_Witness ==
    /\ call.backoffs = <<1, 2>>
    /\ call.outcome = "RuntimeError"

\* C10: a 4xx response other than 401 (404, 429) ends the call at once: the
\* error is raised after that dispatch, with no backoff and no retry.
C10_ClientErrorNotRetried ==
    [][(ev'.op = "dispatch" /\ ev'.res \in {"404", "429"}) =>
         /\ pc' = "idle"
         /\ call'.outcome \in Errors
         /\ call'.attempt = call.attempt
         /\ call'.backoffs = call.backoffs
         /\ now' = now]_vars

\* C11: a token refresh that fails inside make_request (the refresh of
\* get_access_token or the forced refresh after a 401) ends the call there:
\* the error is raised without a backoff and without another attempt.
C11_RefreshFailureIsFatal ==
    [][(InCall /\ IsRefresh(ev') /\ ev'.res \in Errors) =>
         /\ pc' = "idle"
         /\ call'.outcome = ev'.res
         /\ call'.attempt = call.attempt
         /\ call'.backoffs = call.backoffs
         /\ now' = now]_vars

IsCheck(e) == e.op = "can_make_request"

\* C12: can_make_request drops from the short window every timestamp aged
\* 900 s or more and from the daily window every timestamp aged 86400 s or
\* more, keeps all others, adds none, and answers true iff fewer than 100
\* remain in the short window and fewer than 1000 in the daily one.
C12_PurgeThenCompare ==
    [][IsCheck(ev') =>
         /\ rl'.requests_15min =
               SelectSeq(rl.requests_15min, LAMBDA x : ~(now - x >= 900))
         /\ rl'.requests_daily =
               SelectSeq(rl.requests_daily, LAMBDA x : ~(now - x >= 86400))
         /\ (ev'.res = "true") <=>
               (Len(rl'.requests_15min) < 100 /\ Len(rl'.requests_daily) < 1000)
         /\ ev'.res \in {"true", "false"}]_vars

\* C12 witness: a check refused on the daily window alone, after its cleanup
\* emptied nothing of it while the short window held two timestamps.
C12_Witness ==
    /\ IsCheck(ev)
    /\ ev.res = "false"
    /\ Len(rl.requests_15min) = 2
    /\ Len(rl.requests_daily) = 1000

\* C13: while fewer than `limit` requests are registered in a window the
\* check answers true; with exactly `limit` registered it answers false as
\* long as the oldest has not aged out, and true on the first check after
\* the oldest has (the other window permitting).
C13_FalseAtLimitUntilAgedOut ==
    [][IsCheck(ev') =>
         LET s == rl.requests_15min
             d == rl.requests_daily
         IN  /\ (Len(s) < 100 /\ Len(d) < 1000) => ev'.res = "true"
             /\ (Len(s) = 100 /\ now - s[1] < 900) => ev'.res = "false"
             /\ (Len(d) = 1000 /\ now - d[1] < 86400) => ev'.res = "false"
             /\ (Len(s) = 100 /\ now - s[1] >= 900 /\ Len(d) < 1000)
                   => ev'.res = "true"
             /\ (Len(d) = 1000 /\ now - d[1] >= 86400 /\ Len(s) < 100)
                   => ev'.res = "true"]_vars

\* C13 witness: 100 requests were registered, the oldest 98 have aged out of
\* the short window, and the check answers true again.
C13_Witness ==
    /\ IsCheck(ev)
    /\ ev.res = "true"
    /\ now >= 450
    /\ Len(rl.requests_15min) = 2
    /\ Len(rl.requests_daily) = 100

Young(s, retention) == Len(SelectSeq(s, LAMBDA x : now - x < retention))

\* C14: in every state the short window holds at most 100 timestamps
\* younger than 900 s and the daily window at most 1000 younger than
\* 86400 s.
C14_WindowsWithinLimits ==
    /\ Young(rl.requests_15min, 900) <= 100
    /\ Young(rl.requests_daily, 86400) <= 1000

\* C15: an attempt the limiter refuses sleeps 60 s and then goes on to the
\* authenticated request: the call is neither ended nor failed by it.
C15_CoolDownThenProceed ==
    [][(InCall /\ IsCheck(ev') /\ ev'.res = "false") =>
         /\ now' = now + 60
         /\ pc' = "auth"
         /\ call'.outcome = "running"
         /\ call'.attempt = call.attempt
         /\ call'.cooldowns = call.cooldowns + 1
         /\ call'.dispatches = call.dispatches]_vars

\* C15 witness: a throttled call slept once, dispatched and returned the
\* response.
C15_Witness ==
    /\ call.cooldowns = 1
    /\ call.dispatches = 1
    /\ call.outcome = "response"
    /\ now >= 60

\* C16: one make_request invocation sleeps the cool-down at most once.
C16_OneCoolDownPerCall ==
    call.cooldowns <= 1

\* C17: an attempt whose request was answered by the provider (any HTTP
\* status) is registered with add_request when it ends.
C17_AnsweredAttemptRegistered ==
    [][(\/ ev'.op = "dispatch" /\ ev'.res \in {"200", "404", "429", "500"}
        \/ ev'.op = "redispatch" /\ ev'.res # "network") =>
         /\ call'.adds = call.adds + 1
         /\ rl'.requests_15min = Append(rl.requests_15min, now)
         /\ rl'.requests_daily = Append(rl.requests_daily, now)]_vars

\* C18: a make_request invocation registers exactly one timestamp, in each
\* window, at the step that returns the response, and none at any other
\* step, whatever the number of attempts and re-dispatches.
C18_OneRegistrationPerCall ==
    [][InCall =>
         IF call'.outcome = "response"
         THEN /\ rl'.requests_15min = Append(rl.requests_15min, now)
              /\ rl'.requests_daily = Append(rl.requests_daily, now)
              /\ call.adds = 0
              /\ call'.adds = 1
         ELSE /\ Len(rl'.requests_15min) <= Len(rl.requests_15min)
              /\ Len(rl'.requests_daily) <= Len(rl.requests_daily)
              /\ call'.adds = 0]_vars

\* C18 witness: a call returned a response in its third attempt, after a
\* 401 re-dispatch on the way.
C18_Witness ==
    /\ call.outcome = "response"
    /\ call.attempt = 3
    /\ call.forced >= 1
    /\ call.adds = 1

\* C19: the token state changes only in a step that is a successful
\* refresh.
C19_OnlySuccessfulRefreshMutates ==
    [][auth' # auth =>
         (IsRefresh(ev') /\ ev'.res \in {"ok", "refreshed"})]_vars

\* C20: a successful refresh leaves access_token and the cached token equal
\* to the reply's access_token, token_expires_at equal to its expires_at,
\* refresh_token equal to the reply's when it carries one and unchanged
\* otherwise, and returns the new access token.
C20_SuccessfulRefreshStoresReply ==
    [][(IsRefresh(ev') /\ ev'.res \in {"ok", "refreshed"}) =>
         /\ ev'.shape.kind = "ok"
         /\ {"access_token", "expires_at"} \subseteq ev'.shape.keys
         /\ auth'.access_token = ev'.shape.access_token
         /\ auth'.cached_token = ev'.shape.access_token
         /\ auth'.token_expires_at = ev'.shape.expires_at
         /\ auth'.refresh_token =
               IF "refresh_token" \in ev'.shape.keys
               THEN ev'.shape.refresh_token
               ELSE auth.refresh_token
         /\ ev'.tok = ev'.shape.access_token]_vars

\* C20 witness: a refresh without refresh_token in its reply succeeded and
\* the configured refresh token is still held.
C20_Witness ==
    /\ IsRefresh(ev)
    /\ ev.res \in {"ok", "refreshed"}
    /\ "refresh_token" \notin ev.shape.keys
    /\ auth.refresh_token = "refEnv"
    /\ auth.cached_token \in Tokens

----------------------------------------------------------------------------
(* StravaCache properties *)

IsCacheGet(e) == e.op = "get"
IsCacheSet(e) == e.op = "set"

HasSet(key) == \E i \in 1..Len(written) : written[i].key = key

\* The most recent set(key, ...) call.
LastSet(key) ==
    written[CHOOSE i \in 1..Len(written) :
                /\ written[i].key = key
                /\ \A j \in (i + 1)..Len(written) : written[j].key # key]

\* C21: get(key) returns the value of the last set(key, ...) iff there was
\* one and fewer than ttl seconds have passed since it; in every other case
\* (never set, or ttl or more seconds old) it returns None.
C21_ReturnedWhileYoung ==
    [][IsCacheGet(ev') =>
          ev'.val = IF /\ HasSet(ev'.key)
                       /\ now - LastSet(ev'.key).timestamp < ttl
                    THEN LastSet(ev'.key).value
                    ELSE None]_vars

\* A get exactly ttl seconds after the set found the entry expired.
C21_Witness ==
    /\ IsCacheGet(ev)
    /\ ev.res = "miss"
    /\ HasSet(ev.key)
    /\ now - LastSet(ev.key).timestamp = ttl

\* C22: a get that finds the entry of its key expired removes that entry and
\* nothing else; a get that hits or misses leaves the dict as it was.
C22_GetEvictsOnlyExpiredKey ==
    [][IsCacheGet(ev') =>
          cache' = IF /\ ev'.key \in DOMAIN cache
                      /\ now - cache[ev'.key].timestamp >= ttl
                   THEN [x \in DOMAIN cache \ {ev'.key} |-> cache[x]]
                   ELSE cache]_vars

\* A get evicted the expired entry of its key while the entry of another
\* key, expired as well, stayed.
C22_Witness ==
    /\ IsCacheGet(ev)
    /\ HasSet(ev.key)
    /\ ev.key \notin DOMAIN cache
    /\ \E k \in DOMAIN cache : now - cache[k].timestamp >= ttl

\* C23: set(key, value) leaves the entry (value, now) under key, whatever was
\* there, and every other entry as it was; a later get that hits returns the
\* value of the last set, whose time the lifetime is counted from.
C23_SetOverwrites ==
    [][/\ IsCacheSet(ev') =>
             /\ DOMAIN cache' = DOMAIN cache \cup {ev'.key}
             /\ cache'[ev'.key] = Entry(ev'.val, now)
             /\ \A x \in DOMAIN cache \ {ev'.key} : cache'[x] = cache[x]
       /\ (IsCacheGet(ev') /\ ev'.res = "hit") =>
             /\ ev'.val = LastSet(ev'.key).value
             /\ now - LastSet(ev'.key).timestamp < ttl]_vars

\* A key was set twice with different values; a get made when the first
\* set was ttl or more seconds old returned the second value.
C23_Witness ==
    /\ IsCacheGet(ev)
    /\ ev.res = "hit"
    /\ \E i, j \in 1..Len(written) :
          /\ i < j
          /\ written[i].key = ev.key
          /\ written[j].key = ev.key
          /\ written[i].value # written[j].value
          /\ now - written[i].timestamp >= ttl
          /\ ev.val = written[j].value

\* C24: clear() is offered and leaves the cache without entries.
C24_ClearEmpties ==
    [][ev'.op = "clear" => (ev'.res = "none" /\ cache' = <<>>)]_vars

----------------------------------------------------------------------------
(* Resource and error-taxonomy properties *)

IsRead(e) == e.op \in ResourceFunctions

\* C25: every resource read consults the cache first; a hit returns at once,
\* and a read that fetched went through token, request, parse and populate,
\* in that order, before it returned.
C25_CacheFirst ==
    [][IsRead(ev') =>
          /\ ev'.steps[1] = "cache"
          /\ ev'.res = "hit" => ev'.steps = <<"cache", "return">>
          /\ ev'.res = "fetched" =>
                ev'.steps = <<"cache", "token", "request", "parse",
                              "populate", "return">>]_vars

C27_ErrorCarriesStatus ==
    [][(/\ IsRead(ev')
        /\ ev'.res = "raised"
        /\ ev'.status \in StatusCodes \ {"200"}) =>
          ev'.exc.status_code = ev'.status]_vars

\* The status of the response an input of handle_strava_error carries.
InputStatus(error) ==
    IF error.class = "Response" THEN error.status_code
    ELSE IF error.class \in RequestExceptions THEN error.response
    ELSE None

\* C28: handle_strava_error raises StravaApiError for every input: with the
\* status of the response the input is or carries (401: authentication
\* message, 429: rate-limit message, otherwise provider-error message), and
\* without a status for a request exception that has no response (network
\* error) and for any other exception (unexpected error).
C28_AlwaysRaisesTyped ==
    [][ev'.op = "handle_strava_error" =>
          LET s == InputStatus(ev'.input)
              e == ev'.val
          IN  /\ ev'.res = "raised"
              /\ e.class = "StravaApiError"
              /\ e.status_code = s
              /\ e.message =
                    IF s = "401" THEN "Authentication error"
                    ELSE IF s = "429" THEN "Rate limit exceeded"
                    ELSE IF s # None THEN "Strava API error"
                    ELSE IF ev'.input.class \in RequestExceptions
                    THEN "Network error"
                    ELSE "Unexpected error"]_vars

\* A request exception carrying a 429 response was turned into the
\* rate-limit error with status 429.
C28_Witness ==
    /\ ev.op = "handle_strava_error"
    /\ ev.input.class = "RequestException"
    /\ ev.input.response = "429"
    /\ ev.val.status_code = "429"
    /\ ev.val.message = "Rate limit exceeded"

\* C29: the outbound parameters of a paginated listing hold per_page capped
\* at 200 and page as given; before and after are present, with the value
\* given, iff they were given and are not zero; nothing else is sent.
C29_PaginationParams ==
    [][ev'.op = "get_recent_activities_with_pagination" =>
          LET a == ev'.input
              p == ev'.val
              given(x) == x # {} /\ x # {0}
          IN  /\ p["per_page"] = IF a.per_page > 200 THEN 200 ELSE a.per_page
              /\ p["page"] = a.page
              /\ "before" \in DOMAIN p <=> given(a.before)
              /\ "after" \in DOMAIN p <=> given(a.after)
              /\ given(a.before) => {p["before"]} = a.before
              /\ given(a.after) => {p["after"]} = a.after
              /\ DOMAIN p \subseteq {"page", "per_page", "before", "after"}]_vars

\* per_page 250 went out as 200, a zero `before` was left out and the
\* `after` given was sent.
C29_Witness ==
    /\ ev.op = "get_recent_activities_with_pagination"
    /\ ev.input.per_page = 250
    /\ ev.input.before = {0}
    /\ ev.input.after = {50}
    /\ ev.val["per_page"] = 200
    /\ DOMAIN ev.val = {"page", "per_page", "after"}

\* C30: the zone name is Recovery, Endurance, Tempo, Threshold, Anaerobic
\* for the indices 0 to 4 and Unknown for every other index.
C30_ZoneNames ==
    [][ev'.op = "_get_zone_name" =>
          ev'.val = IF ev'.input \in 0..4
                    THEN <<"Recovery", "Endurance", "Tempo", "Threshold",
                           "Anaerobic">>[ev'.input + 1]
                    ELSE "Unknown"]_vars

\* Index 5 was mapped to Unknown.
C30_Witness ==
    /\ ev.op = "_get_zone_name"
    /\ ev.input = 5
    /\ ev.val = "Unknown"

\* C34 -- an access token and expiry supplied by configuration are usable:
\* while the configured token is unexpired (outside the safety buffer), the
\* first get_access_token returns it and contacts the provider for nothing.
C34_ConfiguredTokenUsed ==
    [][(/\ IsGet(ev')
        /\ auth.cached_token = None
        /\ auth.access_token = "tokEnv"
        /\ now < auth.token_expires_at - token_expiry_buffer)
       => (/\ ev'.res = "cached"
           /\ ev'.tok = "tokEnv"
           /\ auth' = auth)]_vars

Count(s, x) == Len(SelectSeq(s, LAMBDA y : y = x))

\* C37 -- after any sequence of add_request and can_make_request under a
\* non-decreasing clock, every timestamp of the short window is also in the
\* daily window (as often as in the short one): the short window is the tail
\* of the daily window.
C37_ShortWithinDaily ==
    LET s == rl.requests_15min
        d == rl.requests_daily
    IN  /\ Len(s) <= Len(d)
        /\ \A i \in 1..Len(s) : Count(s, s[i]) <= Count(d, s[i])
        /\ s = SubSeq(d, Len(d) - Len(s) + 1, Len(d))

\* A request registered during the run has left the short window and is still
\* in the daily one, next to a later request held by both.
C37_Witness ==
    /\ ev.op = "add_request"
    /\ rl.requests_15min # <<>>
    /\ \E i \in 1..Len(rl.requests_daily) :
          /\ rl.requests_daily[i] >= 0
          /\ Count(rl.requests_15min, rl.requests_daily[i]) = 0

\* C35 -- for the cached resources (activity, clubs, gear) a read repeated
\* while the stored entry is younger than the TTL returns the stored value
\* and sends no request, whatever the stored payload is (empty ones too).
C35_RepeatReadFromCache ==
    [][(/\ IsRead(ev')
        /\ UsesCache(ev'.op)
        /\ Live(cache, CacheKey(ev'.op), now))
       => (/\ ev'.res = "hit"
           /\ ev'.val = cache[CacheKey(ev'.op)].value
           /\ calls' = calls)]_vars

IsAnalysis(e) == e.op = "analyze_training_load"

\* The fields a sum is taken over are numbers or absent (absent counts 0).
Summable(acts) ==
    \A i \in 1..Len(acts) :
        /\ acts[i].distance.st # "null"
        /\ acts[i].moving_time.st # "null"

DistanceSum(acts) == Sum([i \in 1..Len(acts) |-> acts[i].distance.n])
TimeSum(acts) == Sum([i \in 1..Len(acts) |-> acts[i].moving_time.n])

\* The activities with a non-zero heart rate between lo (inclusive) and hi
\* (exclusive).
WithHeartRate(acts, lo, hi) ==
    Cardinality({i \in 1..Len(acts) :
                    /\ acts[i].average_heartrate.st = "num"
                    /\ acts[i].average_heartrate.n # 0
                    /\ lo <= acts[i].average_heartrate.n
                    /\ acts[i].average_heartrate.n < hi})

RECURSIVE Total(_)
Total(f) ==
    IF DOMAIN f = {} THEN 0
    ELSE LET k == CHOOSE k \in DOMAIN f : TRUE
         IN  f[k] + Total([j \in DOMAIN f \ {k} |-> f[j]])

\* What C31 says of the counts: the number of activities, per-type counts
\* that add up to it, and each activity with a non-zero heart rate in exactly
\* one zone (easy below 120, medium from 120 below 150, hard from 150).
CountsAsStated(acts, s) ==
    /\ s.activities_count = Len(acts)
    /\ Total(s.activities_by_type) = Len(acts)
    /\ s.heart_rate_zones.easy = WithHeartRate(acts, 0 - 1000, 120)
    /\ s.heart_rate_zones.medium = WithHeartRate(acts, 120, 150)
    /\ s.heart_rate_zones.hard = WithHeartRate(acts, 150, 1000)

\* The documented example gives 2 activities, 7.0 km, 1.5 h and the zones
\* easy 1, medium 1, hard 0.
ExampleAsStated(acts, s) ==
    acts = Example =>
        /\ s.activities_count = 2
        /\ s.total_distance = 700
        /\ s.total_time = 150
        /\ s.heart_rate_zones = [easy |-> 1, medium |-> 1, hard |-> 0]

Missing(field) == field.st \in {"absent", "null"}
ZeroOrMissing(field) == Missing(field) \/ field.n = 0

\* C32 -- the analytics functions never raise on a partially-populated
\* record: pace is 0 when distance or time is zero or missing, effort is the
\* unknown value when the heart rate is missing, and the aggregation
\* completes with a result.
C32_NeverRaisesOnPartial ==
    /\ ev.op \in {"calculate_pace", "calculate_effort",
                  "analyze_training_load"}
          => ev.out.exc = "none"
    /\ (/\ ev.op = "calculate_pace"
        /\ \/ ZeroOrMissing(ev.acts[1].distance)
           \/ ZeroOrMissing(ev.acts[1].moving_time))
          => ev.out.val.num = 0
    /\ (ev.op = "calculate_effort" /\ Missing(ev.acts[1].average_heartrate))
          => ev.out.val = "unknown"

\* C39 -- get_activity_recommendations returns the structured result, with
\* at least one recommendation, for every non-empty list of activities; the
\* warning result only for an empty list; the error result only when the
\* fetch failed.
C39_StructuredForNonEmpty ==
    ev.op = "get_activity_recommendations" =>
        /\ (ev.fetch = "returned" /\ ev.acts # <<>>)
              => /\ ev.result.keys = {"analysis", "recommendations", "summary"}
                 /\ ev.result.recommendations # <<>>
        /\ ev.result.status = "warning"
              => (ev.fetch = "returned" /\ ev.acts = <<>>)
        /\ ev.result.status = "error" => ev.fetch = "raised"

\* Timestamps of window s that are young enough to stay at time t.
Held(s, t, retention) == Len(Purge(s, t, retention))

Quiescent == \A t \in Threads : pc[t] = "idle"

\* C33 -- without mutual exclusion a registered request can be lost, and
\* this is the way it happens: a window never holds more live timestamps
\* than were registered, and it loses one only when a thread rebinds the
\* attribute to a list it built before another thread's append.
C33_LostOnlyByStaleRebind ==
    [][/\ Held(rl'.requests_15min, now, retention_15min) <= Len(written')
       /\ Held(rl'.requests_daily, now, retention_daily)
             <= Len(written') + 1
       /\ Held(rl'.requests_15min, now, retention_15min)
             < Held(rl.requests_15min, now, retention_15min)
             => (ev'.op = "bind_15min" /\ ev'.res = "stale")
       /\ Held(rl'.requests_daily, now, retention_daily)
             < Held(rl.requests_daily, now, retention_daily)
             => (ev'.op = "bind_daily" /\ ev'.res = "stale")]_vars

\* Both threads have returned, two requests were registered, and the short
\* window holds fewer timestamps than that.
C33_Witness ==
    /\ Quiescent
    /\ calls = 2
    /\ Len(written) = 2
    /\ Held(rl.requests_15min, now, retention_15min) < calls

\* The token state a holds what reply r carried.
FromReply(a, r) ==
    /\ a.access_token = r.access_token
    /\ a.cached_token = r.access_token
    /\ a.token_expires_at = r.expires_at
    /\ a.refresh_token = r.refresh_token

\* C38 -- when two threads have run refresh_access_token concurrently and
\* both have returned, the token state holds the fields of exactly one of
\* the provider's replies, never a mixture of two.
C38_StateFromOneReply ==
    (/\ Quiescent
     /\ \A t \in Threads : call[t].outcome = "returned"
     /\ \A r \in written : r.kind = "ok" /\ r.keys = AllKeys)
    => \E r \in written : FromReply(auth, r)
====
